---- MODULE Spec2Model ----
(***************************************************************************)
(* A state-machine model of NewChurchGame.py: the world of neighborhoods,  *)
(* locations and NPCs, the Game object's fields, and one action per step   *)
(* of Game.start_game (choosing a religion, starting a day, one iteration  *)
(* of the door_to_door loop, the end of a day, the end of the game).       *)
(*                                                                         *)
(* Floats are modelled as exact rationals <<numerator, denominator>> in    *)
(* lowest terms.  Every random draw and every answer typed by the player   *)
(* is a parameter of the action that consumes it.  The location type and   *)
(* the preaching strategy are left out: the first only weights the belief  *)
(* level drawn for an NPC (every level stays possible everywhere), the     *)
(* second is stored and never read.                                        *)
(***************************************************************************)
EXTENDS Integers, Sequences, FiniteSets, TLC

VARIABLES
    neighborhoods,     \* Game.neighborhoods: Seq of Seq of Location
    religion,          \* Game.religion ("" before choose_religion)
    conversion_rates,  \* Game.conversion_rates: religion -> rational
    score,             \* Game.score
    satanic_score,     \* Game.satanic_score
    daily_score,       \* Game.daily_score
    hunger,            \* Game.hunger
    weather,           \* Game.weather ("" before the first new_day)
    chosen_location,   \* Game.chosen_location as <<neighborhood, location>>
    day_of_week,       \* Game.day_of_week
    days_done,         \* iterations completed of `for _ in range(7)`
    pc,                \* position in Game.start_game
    ret                \* result of the last direct call of a method (SpecUnit)

vars == <<neighborhoods, religion, conversion_rates, score, satanic_score,
          daily_score, hunger, weather, chosen_location, day_of_week,
          days_done, pc, ret>>

----------------------------------------------------------------------------
(* Bounds of the model *)

\* an NPC's failed_attempts is not driven above MaxFailed
MaxFailed == 1

\* no entry of conversion_rates is driven above MaxRate
MaxRate == 2

\* the same cap for the sessions of SpecChurch, whose ten conversions at one
\* location need the table to grow by 1.1 * 1.2 * ... * 1.9
ChurchMaxRate == 32

\* the largest location of SpecUnit
UnitMaxNPCs == 10

\* SpecUnit calls NPC.convert on the first UnitMaxTargets persons of a location
UnitMaxTargets == 1

(* Program constants *)

ChurchThreshold == 10
HungerLimit == 100
NumDays == 7
NumNeighborhoods == 2
HotColdHunger == 15
NiceHunger == 10
FoodRelief == 20

----------------------------------------------------------------------------
(* Exact rational arithmetic standing for Python's float arithmetic *)

RECURSIVE GCD(_, _)
GCD(a, b) == IF b = 0 THEN a ELSE GCD(b, a % b)

Abs(a) == IF a < 0 THEN -a ELSE a

\* n/d in lowest terms, d > 0
Frac(n, d) ==
    LET g == GCD(Abs(n), d)
    IN  IF n = 0 THEN <<0, 1>> ELSE <<n \div g, d \div g>>

RZero == <<0, 1>>
ROne == <<1, 1>>

RMul(x, y) ==
    LET g1 == GCD(Abs(x[1]), y[2])
        g2 == GCD(Abs(y[1]), x[2])
    IN  IF x[1] = 0 \/ y[1] = 0 THEN RZero
        ELSE <<(x[1] \div g1) * (y[1] \div g2), (x[2] \div g2) * (y[2] \div g1)>>

RAdd(x, y) == Frac(x[1] * y[2] + y[1] * x[2], x[2] * y[2])

RSub(x, y) == Frac(x[1] * y[2] - y[1] * x[2], x[2] * y[2])

RLess(x, y) == x[1] * y[2] < y[1] * x[2]

RLeq(x, y) == x[1] * y[2] <= y[1] * x[2]

RMax(x, y) == IF RLess(x, y) THEN y ELSE x

----------------------------------------------------------------------------
(* Beliefs, NPC, Location *)

belief_levels == {"Strong", "Moderate", "Weak"}
attitudes == {"Favorable", "Neutral", "Hostile"}
religions_of_npcs == {"None", "Evangelist", "Jehovah's Witness", "Mormon", "Custom", "Satanic"}

\* NPC.__init__ with the draws of Beliefs.__init__ and of `resistant` given
NPC(resistant, level, attitude, rel) ==
    [converted |-> FALSE, failed_attempts |-> 0, resistant |-> resistant,
     level |-> level, attitude |-> attitude, religion |-> rel]

\* Location.__init__ with its NPCs given
Location(npcs) == [npcs |-> npcs, church |-> FALSE, church_religion |-> "None"]

\* sum(npc.converted for npc in self.npcs)
num_converted(loc) == Cardinality({i \in 1..Len(loc.npcs) : loc.npcs[i].converted})

\* what `1 + (num_converted / num_total)` evaluates to when num_total = 0
ZeroDivisionError == <<1, 0>>

proportion_converted(loc) ==
    IF Len(loc.npcs) = 0 THEN ZeroDivisionError
    ELSE Frac(num_converted(loc), Len(loc.npcs))

get_conversion_rate_multiplier(loc) ==
    IF Len(loc.npcs) = 0 THEN ZeroDivisionError
    ELSE RAdd(ROne, Frac(num_converted(loc), Len(loc.npcs)))

church_status_recomputed(loc, player_religion) ==
    [loc EXCEPT !.church = num_converted(loc) >= ChurchThreshold,
                !.church_religion = player_religion]

check_church_status(loc, player_religion) ==
    IF num_converted(loc) >= ChurchThreshold
    THEN [loc EXCEPT !.church = TRUE, !.church_religion = player_religion]
    ELSE loc

no_level_factor(level) == ROne

\* the factor of lines 51-54
level_factor(level) ==
    CASE level = "Strong" -> <<1, 2>>
      [] level = "Weak" -> <<2, 1>>
      [] OTHER -> ROne

\* the factor of lines 55-58
attitude_factor(attitude) ==
    CASE attitude = "Favorable" -> <<2, 1>>
      [] attitude = "Hostile" -> <<1, 2>>
      [] OTHER -> ROne

\* conversion_chance of NPC.convert
conversion_chance(npc, conversion_rate) ==
    RMul(RMul(conversion_rate, level_factor(npc.level)), attitude_factor(npc.attitude))

\* whether `random.random() < conversion_chance` can come out as `success`:
\* random() is any float of [0, 1)
draw_allows(chance, success) ==
    IF success THEN RLess(RZero, chance) ELSE RLess(chance, ROne)

never_follower(npc, player_religion) == FALSE

\* line 47: the NPC already follows the player's religion
already_follower(npc, player_religion) == npc.religion = player_religion

\* NPC.convert: the NPC after the call, for the draw `success`
convert(npc, player_religion, conversion_rate, success) ==
    IF already_follower(npc, player_religion) THEN npc
    ELSE IF success
         THEN [npc EXCEPT !.converted = TRUE, !.religion = player_religion]
         ELSE [npc EXCEPT !.converted = FALSE]

----------------------------------------------------------------------------
(* Game *)

\* Game.religions, the religions the player may choose
religions == <<"Evangelist", "Jehovah's Witness", "Mormon", "Custom">>

\* Game.conversion_rates as constructed
initial_conversion_rates ==
    [r \in {"Evangelist", "Jehovah's Witness", "Mormon", "Custom", "Satanic"} |->
        CASE r = "Evangelist" -> <<3, 10>>
          [] r = "Jehovah's Witness" -> <<1, 5>>
          [] r = "Mormon" -> <<1, 4>>
          [] r = "Custom" -> <<3, 20>>
          [] OTHER -> <<1, 2>>]

weathers == {"hot", "cold", "nice"}

\* the Location self.chosen_location refers to
CurrentLocation == neighborhoods[chosen_location[1]][chosen_location[2]]

\* self.chosen_location.npcs (no location is chosen before the first new_day)
CurrentNPCs == IF chosen_location = <<0, 0>> THEN << >> ELSE CurrentLocation.npcs

\* the persons the menu of door_to_door offers
Choices == 1..Len(CurrentNPCs)

\* the places choose_neighborhood_and_location offers
Places ==
    UNION {{<<n, l>> : l \in 1..Len(neighborhoods[n])} : n \in 1..Len(neighborhoods)}

\* every <<neighborhood, location, person>> of the world
People ==
    UNION {{<<p[1], p[2], i>> : i \in 1..Len(neighborhoods[p[1]][p[2]].npcs)} : p \in Places}

person(q) == neighborhoods[q[1]][q[2]].npcs[q[3]]

may_approach_anyone(npc) == TRUE

\* the guard of line 244: a converted person is not approached again
may_approach(npc) == ~npc.converted

never_resistant(npc) == FALSE

\* line 301
is_resistant(npc) == npc.resistant

forget_failure(npc) == npc

\* line 317: chosen_npc.failed_attempts += 1
record_failure(npc) == [npc EXCEPT !.failed_attempts = @ + 1]

scaled_active_rate_only(rates, multiplier) ==
    [rates EXCEPT ![religion] = RMul(@, multiplier)]

\* lines 305-306: every entry of the table times the multiplier
scaled_rates(rates, multiplier) == [r \in DOMAIN rates |-> RMul(rates[r], multiplier)]

\* line 307
effective_rate(rates, rel, npc) ==
    RMax(RZero, RSub(rates[rel], Frac(npc.failed_attempts, 10)))

\* lines 309-313: whether random.choices with weights [1 - rate, rate] can
\* return `response`.  It returns 'bad' when random() < 1 - rate and 'nice'
\* otherwise, also when 1 - rate is negative.
response_allows(conversion_rate, response) ==
    IF response = "bad" THEN RLess(conversion_rate, ROne)
    ELSE RLess(RZero, conversion_rate)

\* lines 351-357: which sub-event a bad response can trigger
sub_event_allows(rel, sub) ==
    CASE sub = "bible" -> rel # "Satanic"
      [] sub = "preacher" -> rel = "Satanic"
      [] OTHER -> TRUE

\* Game.food_donation for the answer `eat`
food_donation(h, eat) == IF eat THEN (IF h - FoodRelief > 0 THEN h - FoodRelief ELSE 0) ELSE h

bible_taken_unasked(rel, take) == "Satanic"

\* Game.receive_satanic_bible for the answer `take`
receive_satanic_bible(rel, take) == IF take THEN "Satanic" ELSE rel

preacher_doubles_every_rate(rates) == [r \in DOMAIN rates |-> RMul(rates[r], <<2, 1>>)]

\* Game.meet_satanic_preacher
meet_satanic_preacher(rates) == [rates EXCEPT !["Satanic"] = RMul(@, <<2, 1>>)]

\* Game.hunger_increase
hunger_increase(h, w) ==
    IF w = "hot" \/ w = "cold" THEN h + HotColdHunger ELSE h + NiceHunger

scores_in_both(rel, s, ss, ds) == <<s + 1, ss + 1, ds + 1>>

scores_always_score(rel, s, ss, ds) == <<s + 1, ss, ds + 1>>

\* lines 323-327: <<score, satanic_score, daily_score>> after a conversion
scores_after_conversion(rel, s, ss, ds) ==
    IF rel = "Satanic" THEN <<s, ss + 1, ds>> ELSE <<s + 1, ss, ds + 1>>

\* The draws and answers one encounter consumes.  A draw the encounter does
\* not make has its default value.
Draws ==
    LET D(response, sub, eat, take, success, donate) ==
            [response |-> response, sub |-> sub, eat |-> eat, take |-> take,
             success |-> success, donate |-> donate]
    IN  {D("none", "none", FALSE, FALSE, FALSE, FALSE)}
        \cup {D("bad", sub, FALSE, FALSE, FALSE, FALSE) : sub \in {"none", "preacher"}}
        \cup {D("bad", "food", eat, FALSE, FALSE, FALSE) : eat \in BOOLEAN}
        \cup {D("bad", "bible", FALSE, take, FALSE, FALSE) : take \in BOOLEAN}
        \cup {D("nice", "none", FALSE, FALSE, success, FALSE) : success \in BOOLEAN}
        \cup {D("nice", "none", eat, FALSE, TRUE, TRUE) : eat \in BOOLEAN}

NoDraws ==
    [response |-> "none", sub |-> "none", eat |-> FALSE, take |-> FALSE,
     success |-> FALSE, donate |-> FALSE]

\* every entry of the table is at most `cap`
WithinCap(rates, cap) == \A r \in DOMAIN rates : RLeq(rates[r], <<cap, 1>>)

----------------------------------------------------------------------------
(* Steps of Game.start_game *)

\* Game.choose_religion
choose_religion(choice) ==
    /\ pc = "choose_religion"
    /\ choice \in 1..Len(religions)
    /\ religion' = religions[choice]
    /\ pc' = "new_day"
    /\ UNCHANGED <<neighborhoods, conversion_rates, score, satanic_score,
                   daily_score, hunger, weather, chosen_location, day_of_week,
                   days_done, ret>>

\* Game.new_day, with Game.choose_neighborhood_and_location
new_day(w, n, l) ==
    /\ pc = "new_day"
    /\ w \in weathers
    /\ n \in 1..Len(neighborhoods)
    /\ l \in 1..Len(neighborhoods[n])
    /\ weather' = w
    /\ chosen_location' = <<n, l>>
    /\ pc' = "door_to_door"
    /\ UNCHANGED <<neighborhoods, religion, conversion_rates, score,
                   satanic_score, daily_score, hunger, day_of_week, days_done, ret>>

\* door_to_door, choice 0: move on to another location
move_on(n, l) ==
    /\ pc = "door_to_door"
    /\ hunger < HungerLimit
    /\ n \in 1..Len(neighborhoods)
    /\ l \in 1..Len(neighborhoods[n])
    /\ chosen_location' = <<n, l>>
    /\ UNCHANGED <<neighborhoods, religion, conversion_rates, score,
                   satanic_score, daily_score, hunger, weather, day_of_week,
                   days_done, pc, ret>>

\* door_to_door, a person who "has already been converted": nothing happens
approach_converted(choice) ==
    /\ pc = "door_to_door"
    /\ hunger < HungerLimit
    /\ choice \in 1..Len(CurrentLocation.npcs)
    /\ ~may_approach(CurrentLocation.npcs[choice])
    /\ UNCHANGED vars

approaching_when_hungry ==
    /\ pc = "door_to_door"
    /\ UNCHANGED <<weather, chosen_location, day_of_week, days_done, pc, ret>>

\* an iteration of the loop of door_to_door that approaches a person: the
\* loop is running, and the step leaves what no encounter writes
approaching ==
    /\ pc = "door_to_door"
    /\ hunger < HungerLimit
    /\ UNCHANGED <<weather, chosen_location, day_of_week, days_done, pc, ret>>

\* door_to_door, lines 243-250: Game.encounter on the chosen person, then
\* Game.hunger_increase
approach(choice, d, cap) ==
    /\ approaching
    /\ choice \in 1..Len(CurrentLocation.npcs)
    /\ may_approach(CurrentLocation.npcs[choice])
    /\ LET chosen_npc == CurrentLocation.npcs[choice]
           n == chosen_location[1]
           l == chosen_location[2]
       IN  IF is_resistant(chosen_npc)
           THEN /\ d = NoDraws
                /\ hunger' = hunger_increase(hunger, weather)
                /\ UNCHANGED <<neighborhoods, religion, conversion_rates, score,
                               satanic_score, daily_score>>
           ELSE LET multiplier == get_conversion_rate_multiplier(CurrentLocation)
                    rates1 == scaled_rates(conversion_rates, multiplier)
                    conversion_rate == effective_rate(rates1, religion, chosen_npc)
                IN  IF d.response = "bad"
                    THEN \* bad_response(), then failed_attempts += 1
                         /\ ~d.success /\ ~d.donate
                         /\ d.eat => d.sub = "food"
                         /\ d.take => d.sub = "bible"
                         /\ sub_event_allows(religion, d.sub)
                         /\ chosen_npc.failed_attempts < MaxFailed
                         /\ hunger' = hunger_increase(
                                IF d.sub = "food" THEN food_donation(hunger, d.eat)
                                ELSE hunger, weather)
                         /\ religion' = IF d.sub = "bible"
                                        THEN receive_satanic_bible(religion, d.take)
                                        ELSE religion
                         /\ UNCHANGED <<score, satanic_score, daily_score>>
                         /\ neighborhoods' =
                                [neighborhoods EXCEPT ![n][l].npcs[choice] = record_failure(@)]
                         /\ response_allows(conversion_rate, "bad")
                         /\ LET rates2 == IF d.sub = "preacher"
                                          THEN meet_satanic_preacher(rates1)
                                          ELSE rates1
                            IN  /\ WithinCap(rates2, cap)
                                /\ conversion_rates' = rates2
                    ELSE \* chosen_npc.convert(...), the score, the food donation
                         LET npc1 == convert(chosen_npc, religion, conversion_rate, d.success)
                             sc == IF npc1.converted
                                   THEN scores_after_conversion(religion, score,
                                            satanic_score, daily_score)
                                   ELSE <<score, satanic_score, daily_score>>
                         IN  /\ d.response = "nice"
                             /\ d.sub = "none" /\ ~d.take
                             /\ d.eat => d.donate
                             /\ d.donate => npc1.converted
                             /\ hunger' = hunger_increase(
                                    IF d.donate THEN food_donation(hunger, d.eat)
                                    ELSE hunger, weather)
                             /\ UNCHANGED religion
                             /\ score' = sc[1]
                             /\ satanic_score' = sc[2]
                             /\ daily_score' = sc[3]
                             /\ neighborhoods' =
                                    [neighborhoods EXCEPT ![n][l].npcs[choice] = npc1]
                             /\ response_allows(conversion_rate, "nice")
                             /\ IF already_follower(chosen_npc, religion)
                                THEN ~d.success
                                ELSE draw_allows(conversion_chance(chosen_npc,
                                                     conversion_rate), d.success)
                             /\ WithinCap(rates1, cap)
                             /\ conversion_rates' = rates1

\* start_game, lines 148-150: the day ends once hunger has reached 100
day_end ==
    /\ pc = "door_to_door"
    /\ hunger >= HungerLimit
    /\ hunger' = 0
    /\ day_of_week' = (day_of_week + 1) % 7
    /\ daily_score' = 0
    /\ days_done' = days_done + 1
    /\ pc' = IF days_done + 1 = NumDays THEN "end_game" ELSE "new_day"
    /\ UNCHANGED <<neighborhoods, religion, conversion_rates, score,
                   satanic_score, weather, chosen_location, ret>>

\* Game.end_game: only messages; the session is over
end_game ==
    /\ pc = "end_game"
    /\ pc' = "done"
    /\ UNCHANGED <<neighborhoods, religion, conversion_rates, score,
                   satanic_score, daily_score, hunger, weather, chosen_location,
                   day_of_week, days_done, ret>>

----------------------------------------------------------------------------
(* Worlds: what Game.__init__ can generate, in small *)

easy_npc == NPC(FALSE, "Weak", "Favorable", "None")
hard_npc == NPC(FALSE, "Strong", "Hostile", "Mormon")
plain_npc == NPC(FALSE, "Moderate", "Neutral", "None")
resistant_npc == NPC(TRUE, "Moderate", "Neutral", "None")

\* two neighborhoods of one location each
Worlds ==
    { << <<Location(<<easy_npc, hard_npc>>)>>, <<Location(<<resistant_npc>>)>> >>,
      << <<Location(<<resistant_npc>>)>>, <<Location(<< >>)>> >> }

NoCall == [op |-> "none", place |-> <<0, 0>>, value |-> <<0, 1>>]

\* the Game fields as Game.__init__ sets them
InitGame ==
    /\ religion = ""
    /\ conversion_rates = initial_conversion_rates
    /\ score = 0
    /\ satanic_score = 0
    /\ daily_score = 0
    /\ hunger = 0
    /\ weather = ""
    /\ chosen_location = <<0, 0>>
    /\ day_of_week = 0
    /\ days_done = 0
    /\ ret = NoCall

\* Game.__init__
Init ==
    /\ neighborhoods \in Worlds
    /\ InitGame
    /\ pc = "choose_religion"

Next ==
    \/ \E choice \in 1..Len(religions) : choose_religion(choice)
    \/ \E w \in weathers, p \in Places : new_day(w, p[1], p[2])
    \/ \E p \in Places : move_on(p[1], p[2])
    \/ \E choice \in Choices : approach_converted(choice)
    \/ \E choice \in Choices, d \in Draws : approach(choice, d, MaxRate)
    \/ day_end
    \/ end_game

Spec == Init /\ [][Next]_vars

----------------------------------------------------------------------------
(* SpecFollower: sessions in a world whose only person is a Mormon *)

follower_npc == NPC(FALSE, "Moderate", "Neutral", "Mormon")

follower_world == << <<Location(<<follower_npc>>)>>, <<Location(<< >>)>> >>

InitFollower ==
    /\ neighborhoods = follower_world
    /\ InitGame
    /\ pc = "choose_religion"

SpecFollower == InitFollower /\ [][Next]_vars

----------------------------------------------------------------------------
(* SpecDiligent: sessions of a player who approaches a person who is not
   converted whenever there is one anywhere in the world, and never eats
   donated food.  The worlds have no person who can be converted, so no
   bound of the model cuts a session short.  The program is one thread that
   moves on whenever the player answers: weak fairness of its steps. *)

DiligentWorlds ==
    { << <<Location(<<resistant_npc>>)>>, <<Location(<< >>)>> >>,
      << <<Location(<< >>)>>, <<Location(<< >>)>> >> }

InitDiligent ==
    /\ neighborhoods \in DiligentWorlds
    /\ InitGame
    /\ pc = "choose_religion"

\* somebody at place p is not converted
has_unconverted(p) ==
    \E i \in 1..Len(neighborhoods[p[1]][p[2]].npcs) :
        ~neighborhoods[p[1]][p[2]].npcs[i].converted

\* choice 0, entered when nobody is left to approach here; the player goes
\* where somebody is left, if there is such a place
diligent_move(n, l) ==
    /\ pc = "door_to_door"
    /\ ~has_unconverted(chosen_location)
    /\ (\E p \in Places : has_unconverted(p)) => has_unconverted(<<n, l>>)
    /\ move_on(n, l)

\* the player approaches a person and declines any food
diligent_approach(choice, d) ==
    /\ ~d.eat
    /\ approach(choice, d, MaxRate)

NextDiligent ==
    \/ \E choice \in 1..Len(religions) : choose_religion(choice)
    \/ \E w \in weathers, p \in Places : new_day(w, p[1], p[2])
    \/ \E p \in Places : diligent_move(p[1], p[2])
    \/ \E choice \in Choices, d \in Draws : diligent_approach(choice, d)
    \/ day_end
    \/ end_game

SpecDiligent == InitDiligent /\ [][NextDiligent]_vars /\ WF_vars(NextDiligent)

----------------------------------------------------------------------------
(* SpecChurch: sessions at one location of ten persons.  Until nine of them
   are converted the session is a replay in which the player approaches the
   persons in order and every encounter draws a nice response and a
   successful conversion without a food donation; from then on every step
   of the session is free. *)

church_world ==
    << <<Location([i \in 1..ChurchThreshold |-> plain_npc])>>, <<Location(<< >>)>> >>

InitChurch ==
    /\ neighborhoods = church_world
    /\ InitGame
    /\ pc = "choose_religion"

Replayed(choice, d) ==
    num_converted(CurrentLocation) < ChurchThreshold - 1
    => /\ choice = num_converted(CurrentLocation) + 1
       /\ d = [NoDraws EXCEPT !.response = "nice", !.success = TRUE]

NextChurch ==
    \/ \E choice \in 1..Len(religions) : choose_religion(choice)
    \/ \E w \in weathers, p \in Places : new_day(w, p[1], p[2])
    \/ \E p \in Places : move_on(p[1], p[2])
    \/ \E choice \in Choices : approach_converted(choice)
    \/ \E choice \in Choices, d \in Draws :
            Replayed(choice, d) /\ approach(choice, d, ChurchMaxRate)
    \/ day_end

SpecChurch == InitChurch /\ [][NextChurch]_vars

----------------------------------------------------------------------------
(* SpecUnit: a method called directly on a location of the world, the
   result kept in `ret`.  The location is one of n persons of whom the first
   c are converted, for every n up to UnitMaxNPCs and every c up to n. *)

unit_npc(converted) ==
    [plain_npc EXCEPT !.converted = converted,
                      !.religion = IF converted THEN "Evangelist" ELSE "None"]

unit_location(n, c) == Location([i \in 1..n |-> unit_npc(i <= c)])

UnitWorlds ==
    UNION { { << <<unit_location(n, c)>>, <<Location(<< >>)>> >> : c \in 0..n } :
              n \in 0..UnitMaxNPCs }

\* worlds of one person, for every belief level and attitude
ConvertWorlds ==
    { << <<Location(<<NPC(FALSE, level, attitude, "None")>>)>>, <<Location(<< >>)>> >> :
        level \in belief_levels, attitude \in attitudes }

\* the arguments and draws of the direct calls
UnitReligions == {"Evangelist", "Satanic"}
UnitRates == {<<0, 1>>, <<1, 2>>, <<41, 40>>}
UnitDraws == {<<0, 1>>, <<1, 8>>, <<1, 2>>, <<99, 100>>}

InitUnit ==
    /\ neighborhoods \in UnitWorlds \cup ConvertWorlds
    /\ InitGame
    /\ pc = "unit"

\* location.get_conversion_rate_multiplier()
call_get_conversion_rate_multiplier(p) ==
    /\ pc = "unit"
    /\ ret' = [op |-> "get_conversion_rate_multiplier", place |-> p,
               value |-> get_conversion_rate_multiplier(neighborhoods[p[1]][p[2]])]
    /\ UNCHANGED <<neighborhoods, religion, conversion_rates, score, satanic_score,
                   daily_score, hunger, weather, chosen_location, day_of_week,
                   days_done, pc>>

\* location.check_church_status(player_religion)
call_check_church_status(p, player_religion) ==
    /\ pc = "unit"
    /\ neighborhoods' = [neighborhoods EXCEPT
            ![p[1]][p[2]] = check_church_status(@, player_religion)]
    /\ ret' = [op |-> "check_church_status", place |-> p, value |-> NoCall.value]
    /\ UNCHANGED <<religion, conversion_rates, score, satanic_score, daily_score,
                   hunger, weather, chosen_location, day_of_week, days_done, pc>>

\* location.npcs[i - 1].convert(player_religion, conversion_rate), where
\* random.random() returns u
call_convert(p, i, player_religion, conversion_rate, u) ==
    /\ pc = "unit"
    /\ i \in 1..Len(neighborhoods[p[1]][p[2]].npcs)
    /\ i <= UnitMaxTargets
    /\ neighborhoods' = [neighborhoods EXCEPT
            ![p[1]][p[2]].npcs[i] =
                convert(@, player_religion, conversion_rate,
                        RLess(u, conversion_chance(@, conversion_rate)))]
    /\ ret' = [op |-> "convert", place |-> p, value |-> NoCall.value]
    /\ UNCHANGED <<religion, conversion_rates, score, satanic_score, daily_score,
                   hunger, weather, chosen_location, day_of_week, days_done, pc>>

NextUnit ==
    \/ \E p \in Places : call_get_conversion_rate_multiplier(p)
    \/ \E p \in Places, rel \in UnitReligions : call_check_church_status(p, rel)
    \/ \E p \in Places, i \in 1..UnitMaxTargets, rel \in UnitReligions,
          r \in UnitRates, u \in UnitDraws : call_convert(p, i, rel, r, u)

SpecUnit == InitUnit /\ [][NextUnit]_vars

----------------------------------------------------------------------------
(* Properties of a session *)

\* C1: an NPC's `converted` never changes from true to false, whatever the
\* step (so it changes from false to true at most once).
C1_ConvertedNeverReverts ==
    [][\A q \in People : person(q).converted => person(q)'.converted]_vars

\* a converted person whose religion is no longer the player's, a day later
C1_Witness ==
    /\ days_done >= 1
    /\ \E q \in People : person(q).converted /\ person(q).religion # religion

\* C2: at the end of every encounter, a location with at least ten converted
\* NPCs is a church of the active religion (church status is re-checked
\* after every conversion).
C2_ChurchStatusKeptLive ==
    \A p \in Places :
        LET loc == neighborhoods[p[1]][p[2]]
        IN  num_converted(loc) >= ChurchThreshold
            => loc.church /\ loc.church_religion = religion

\* C3: an encounter with a resistant NPC makes no draw and leaves the rate
\* table, every NPC and the three scores unchanged; a resistant NPC is
\* never converted and its failed_attempts stays 0.
C3_ResistantUntouched ==
    /\ [][approaching => \A choice \in Choices, d \in Draws :
            (CurrentNPCs[choice].resistant /\ approach(choice, d, MaxRate))
            => /\ d = NoDraws
               /\ UNCHANGED <<conversion_rates, neighborhoods, score,
                              satanic_score, daily_score>>]_vars
    /\ [](\A q \in People :
            person(q).resistant => ~person(q).converted /\ person(q).failed_attempts = 0)

\* a world of resistant persons only, one of whom has been approached
C3_Witness ==
    /\ People # {}
    /\ \A q \in People : person(q).resistant
    /\ hunger > 0

\* C4: the conversion rate an encounter computes (the weight of the 'nice'
\* response, and the rate passed to NPC.convert) lies in [0, 1].
C4_RateWithinUnitInterval ==
    [][approaching => \A choice \in Choices, d \in Draws :
         (~CurrentNPCs[choice].resistant /\ approach(choice, d, MaxRate))
         => LET conversion_rate ==
                    effective_rate(
                        scaled_rates(conversion_rates,
                                     get_conversion_rate_multiplier(CurrentLocation)),
                        religion, CurrentNPCs[choice])
            IN  RLeq(RZero, conversion_rate) /\ RLeq(conversion_rate, ROne)]_vars

\* C5: get_conversion_rate_multiplier on a location without NPCs returns 1
\* and does not raise.
C5_EmptyLocationMultiplierIsOne ==
    (/\ ret.op = "get_conversion_rate_multiplier"
     /\ Len(neighborhoods[ret.place[1]][ret.place[2]].npcs) = 0)
    => ret.value # ZeroDivisionError /\ ret.value = ROne

\* C6: hunger is within [0, 100] in every state, and 0 when a day starts.
C6_HungerWithinLimit ==
    /\ hunger >= 0
    /\ hunger <= HungerLimit
    /\ pc = "new_day" => hunger = 0

\* C7: failed_attempts never decreases; an encounter whose response is bad
\* adds exactly 1 to the approached NPC's failed_attempts, every other
\* encounter leaves it, and every encounter leaves the other NPCs' counts.
\* (Each line reads "the count is as claimed, or the step is no such
\* encounter with `choice`".)
C7_FailedAttemptsCountBadResponses ==
    [][/\ \A q \in People :
            person(q)'.failed_attempts >= person(q).failed_attempts
       /\ approaching => \A choice \in Choices :
            LET chosen == <<chosen_location[1], chosen_location[2], choice>>
                added == person(chosen)'.failed_attempts
                         - person(chosen).failed_attempts
            IN  /\ \/ added = 1
                   \/ \A d \in Draws :
                        d.response = "bad" => ~approach(choice, d, MaxRate)
                /\ \/ added = 0
                   \/ \A d \in Draws :
                        d.response # "bad" => ~approach(choice, d, MaxRate)
                /\ \/ \A q \in People :
                        \/ q = chosen
                        \/ person(q)'.failed_attempts = person(q).failed_attempts
                   \/ \A d \in Draws : ~approach(choice, d, MaxRate)]_vars

\* a bad response whose sub-event made the player a Satanic preacher
C7_Witness ==
    /\ religion = "Satanic"
    /\ \E q \in People : person(q).failed_attempts = 1

\* C8: an encounter with a non-resistant NPC multiplies every entry of the
\* rate table by 1 + converted/total of the current location as it was
\* before the encounter, whatever the response; the only other change to
\* the table is the doubling of the Satanic entry by the meet-preacher
\* sub-event of a bad response.
\* (The first line reads "the table is as claimed, or the step is no such
\* encounter".)
C8_EveryRateScaledByMultiplier ==
    [][approaching =>
         LET total == Len(CurrentNPCs)
             multiplier == Frac(total + num_converted(CurrentLocation), total)
             scaled == [r \in DOMAIN conversion_rates |->
                           RMul(conversion_rates[r], multiplier)]
             doubled == [scaled EXCEPT !["Satanic"] = RMul(@, <<2, 1>>)]
         IN  /\ \/ conversion_rates' = scaled
                \/ \A choice \in Choices, d \in Draws :
                     (~CurrentNPCs[choice].resistant /\ d.sub # "preacher")
                     => ~approach(choice, d, MaxRate)
             /\ \A choice \in Choices, d \in Draws :
                  (/\ ~CurrentNPCs[choice].resistant
                   /\ d.sub = "preacher"
                   /\ approach(choice, d, MaxRate))
                  => conversion_rates' = doubled]_vars

\* the table after one encounter at a location half of whose persons are converted
C8_Witness ==
    /\ conversion_rates["Custom"] = <<9, 40>>
    /\ conversion_rates["Satanic"] = <<3, 4>>

\* C9: no step lowers an entry of the rate table.
C9_RatesNeverDecrease ==
    [][\A r \in DOMAIN conversion_rates :
         RLeq(conversion_rates[r], conversion_rates'[r])]_vars

\* the Satanic entry has grown by more than the other entries (it was doubled)
C9_Witness ==
    /\ RLess(initial_conversion_rates["Custom"], conversion_rates["Custom"])
    /\ RLess(RMul(conversion_rates["Custom"], <<10, 3>>), conversion_rates["Satanic"])

\* C10: an encounter that converts adds 1 to satanic_score alone when the
\* active religion is Satanic, and otherwise 1 to score and to daily_score
\* alone; an encounter that does not convert changes no score.
\* (Reads "the scores are as claimed, or the step is no encounter with
\* `choice`".)
C10_ScoreFollowsConversion ==
    [][approaching => \A choice \in Choices :
         LET q == <<chosen_location[1], chosen_location[2], choice>>
             s == <<score, satanic_score, daily_score>>
         IN  \/ <<score', satanic_score', daily_score'>> =
                  IF person(q)'.converted /\ ~person(q).converted
                  THEN IF religion = "Satanic"
                       THEN <<s[1], s[2] + 1, s[3]>>
                       ELSE <<s[1] + 1, s[2], s[3] + 1>>
                  ELSE s
             \/ \A d \in Draws : ~approach(choice, d, MaxRate)]_vars

\* conversions counted on both sides of the player's change of religion
C10_Witness == score > 0 /\ satanic_score > 0

\* C11: when the approached NPC already follows the active religion, a nice
\* response leaves the NPC as it was (converted, religion, failed_attempts),
\* changes no score and is followed by no food donation: hunger only grows
\* by the step of hunger_increase.
C11_FollowerEncounterIsNoOp ==
    [][approaching => \A choice \in Choices, d \in Draws :
         (/\ CurrentNPCs[choice].religion = religion
          /\ d.response = "nice"
          /\ approach(choice, d, MaxRate))
         => /\ ~d.donate
            /\ CurrentNPCs'[choice] = CurrentNPCs[choice]
            /\ UNCHANGED <<score, satanic_score, daily_score>>
            /\ hunger' = hunger_increase(hunger, weather)]_vars

\* a Mormon player on the first day, after encounters with the Mormon none
\* of which drew a bad response
C11_Witness ==
    /\ neighborhoods = follower_world
    /\ religion = "Mormon"
    /\ days_done = 0
    /\ hunger > 0

\* C12: the meet-preacher sub-event of a bad response happens only while
\* the active religion is Satanic; it doubles the Satanic entry of the rate
\* table (as the encounter's multiplier left it) and leaves every other
\* entry, the active religion, the scores and hunger (which only grows by
\* the step of hunger_increase that ends the encounter).
C12_PreacherDoublesSatanicOnly ==
    [][approaching => \A choice \in Choices, d \in Draws :
         (d.sub = "preacher" /\ approach(choice, d, MaxRate))
         => LET before == scaled_rates(conversion_rates,
                              get_conversion_rate_multiplier(CurrentLocation))
            IN  /\ religion = "Satanic"
                /\ religion' = "Satanic"
                /\ conversion_rates'["Satanic"] = RMul(before["Satanic"], <<2, 1>>)
                /\ \A r \in DOMAIN conversion_rates \ {"Satanic"} :
                      conversion_rates'[r] = before[r]
                /\ UNCHANGED <<score, satanic_score, daily_score>>
                /\ hunger' = hunger_increase(hunger, weather)]_vars

\* a Satanic player whose Satanic entry is twice what the other entries'
\* growth accounts for
C12_Witness ==
    /\ religion = "Satanic"
    /\ conversion_rates["Satanic"] = RMul(conversion_rates["Custom"], <<20, 3>>)

\* C13: NPC.convert on an NPC that does not follow the player's religion
\* converts exactly when the draw is below r * s * a, for the rate r passed
\* in, s = 0.5, 1, 2 for a Strong, Moderate, Weak belief and a = 2, 1, 0.5
\* for a Favorable, Neutral, Hostile attitude; for Strong and Hostile that
\* is 0.25 * r.
C13_ConversionProbability ==
    [][\A p \in Places, i \in 1..UnitMaxTargets, rel \in UnitReligions,
          r \in UnitRates, u \in UnitDraws :
         (/\ i <= Len(neighborhoods[p[1]][p[2]].npcs)
          /\ person(<<p[1], p[2], i>>).religion # rel
          /\ call_convert(p, i, rel, r, u))
         => LET npc == person(<<p[1], p[2], i>>)
                s == CASE npc.level = "Strong" -> <<1, 2>>
                       [] npc.level = "Moderate" -> <<1, 1>>
                       [] npc.level = "Weak" -> <<2, 1>>
                a == CASE npc.attitude = "Favorable" -> <<2, 1>>
                       [] npc.attitude = "Neutral" -> <<1, 1>>
                       [] npc.attitude = "Hostile" -> <<1, 2>>
                converts == person(<<p[1], p[2], i>>)'.converted
            IN  /\ converts <=> RLess(u, RMul(RMul(r, s), a))
                /\ (npc.level = "Strong" /\ npc.attitude = "Hostile")
                   => (converts <=> RLess(u, RMul(<<1, 4>>, r)))]_vars

\* a Strong and Hostile person converted by a direct call
C13_Witness ==
    /\ ret.op = "convert"
    /\ \E q \in People :
         /\ person(q).level = "Strong"
         /\ person(q).attitude = "Hostile"
         /\ person(q).converted

\* C14: once a location is a church, check_church_status does not change
\* its church_religion, whatever religion it is called with.
C14_ChurchReligionSetOnce ==
    [][\A p \in Places, rel \in UnitReligions :
         (/\ neighborhoods[p[1]][p[2]].church
          /\ call_check_church_status(p, rel))
         => neighborhoods'[p[1]][p[2]].church_religion
                = neighborhoods[p[1]][p[2]].church_religion]_vars

\* C17: no operation takes a location's `church` from true to false, also
\* not check_church_status called when fewer than ten NPCs are converted.
C17_ChurchIsMonotonic ==
    [][\A p \in Places :
         neighborhoods[p[1]][p[2]].church => neighborhoods'[p[1]][p[2]].church]_vars

\* a church fewer than ten of whose persons are (still) converted, after a
\* call of check_church_status
C17_Witness ==
    /\ ret.op = "check_church_status"
    /\ neighborhoods[ret.place[1]][ret.place[2]].church
    /\ num_converted(neighborhoods[ret.place[1]][ret.place[2]]) < ChurchThreshold

\* C15: after the player's choice of a religion, the active religion changes
\* only in an encounter whose bad response offers the Satanic Bible and the
\* player takes it, and then to Satanic; a Satanic player stays Satanic.
\* An encounter draws its response with the rate of the religion that is
\* active when it starts (less 0.1 per failed attempt: 'bad' needs a rate
\* below 1, 'nice' a rate above 0), and a person it converts takes that
\* religion.
C15_ReligionChangesOnlyByBible ==
    [][/\ (pc # "choose_religion" /\ religion' # religion)
          => approaching /\ religion' = "Satanic"
       /\ religion = "Satanic" => religion' = "Satanic"
       /\ \A q \in People :
            IF person(q)'.converted /\ ~person(q).converted
            THEN person(q)'.religion = religion /\ religion' = religion
            ELSE person(q)'.religion = person(q).religion
       /\ approaching => \A choice \in Choices :
            LET npc == CurrentNPCs[choice]
                total == Len(CurrentNPCs)
                rate == RSub(RMul(conversion_rates[religion],
                                  Frac(total + num_converted(CurrentLocation), total)),
                             Frac(npc.failed_attempts, 10))
            IN  /\ \/ religion' = religion
                   \/ \A d \in Draws :
                        ~(d.response = "bad" /\ d.sub = "bible" /\ d.take)
                        => ~approach(choice, d, MaxRate)
                /\ \/ religion' = "Satanic"
                   \/ \A d \in Draws :
                        (d.response = "bad" /\ d.sub = "bible" /\ d.take)
                        => ~approach(choice, d, MaxRate)
                /\ \/ RLess(rate, ROne)
                   \/ \A d \in Draws :
                        d.response = "bad" => ~approach(choice, d, MaxRate)
                /\ \/ RLess(RZero, rate)
                   \/ \A d \in Draws :
                        d.response = "nice" => ~approach(choice, d, MaxRate)]_vars

\* persons converted on both sides of the player's change of religion
C15_Witness ==
    /\ religion = "Satanic"
    /\ \E q \in People : person(q).converted /\ person(q).religion = "Satanic"
    /\ \E q \in People : person(q).converted /\ person(q).religion = "Custom"

\* C16: no encounter is resolved while hunger >= 100; a day ends only when
\* hunger >= 100, and its end resets hunger and daily_score to 0 and moves
\* the day of the week on by 1 modulo 7; end_game is entered only when the
\* seventh day ends, and nothing changes after it.
C16_DayLoop ==
    /\ [][/\ (/\ pc = "door_to_door"
              /\ pc' = "door_to_door"
              /\ <<neighborhoods, religion, conversion_rates, score, satanic_score,
                    daily_score, hunger>>' #
                 <<neighborhoods, religion, conversion_rates, score, satanic_score,
                   daily_score, hunger>>)
             => hunger < HungerLimit
          /\ (days_done' # days_done \/ day_of_week' # day_of_week
                \/ (pc = "door_to_door" /\ pc' # pc))
             => /\ hunger >= HungerLimit
                /\ hunger' = 0
                /\ daily_score' = 0
                /\ day_of_week' = (day_of_week + 1) % 7
                /\ days_done' = days_done + 1
          /\ (pc' = "end_game" /\ pc # "end_game") => days_done' = NumDays
          /\ pc \in {"end_game", "done"}
             => /\ pc' \in {"end_game", "done"}
                /\ UNCHANGED <<neighborhoods, religion, conversion_rates, score,
                               satanic_score, daily_score, hunger, weather,
                               chosen_location, day_of_week, days_done>>]_vars
    /\ [](pc \in {"end_game", "done"} <=> days_done = NumDays)

\* the end of a session in which somebody was converted
C16_Witness ==
    /\ pc = "done"
    /\ day_of_week = 0
    /\ hunger = 0
    /\ score + satanic_score > 0

\* C18: score + satanic_score is the number of converted NPCs of the world,
\* and daily_score is at most score.
C18_ScoresCountConverts ==
    /\ score + satanic_score = Cardinality({q \in People : person(q).converted})
    /\ daily_score <= score

\* two converts, one of them of an earlier day
C18_Witness ==
    /\ score = 2
    /\ daily_score = 1

\* C19: an iteration of the loop of door_to_door that changes anything is an
\* encounter with a person of the chosen location who is not converted, and
\* changes no other person; no encounter is made with an index outside the
\* location's list.  So when an encounter computes the multiplier (the
\* person is not resistant) the location has a person who is not converted:
\* the division is defined and the multiplier is in [1, 2).
C19_EncountersAreValid ==
    [][approaching =>
         /\ \A choice \in {0, Len(CurrentNPCs) + 1}, d \in Draws :
              ~approach(choice, d, MaxRate)
         /\ <<neighborhoods, religion, conversion_rates, score, satanic_score,
               daily_score, hunger>>' #
            <<neighborhoods, religion, conversion_rates, score, satanic_score,
              daily_score, hunger>>
            => \E choice \in Choices :
                 /\ ~CurrentNPCs[choice].converted
                 /\ \A q \in People :
                      \/ q = <<chosen_location[1], chosen_location[2], choice>>
                      \/ person(q)' = person(q)
         /\ \A choice \in Choices :
              \/ /\ ~CurrentNPCs[choice].converted
                 /\ \/ CurrentNPCs[choice].resistant
                    \/ LET m == get_conversion_rate_multiplier(CurrentLocation)
                       IN  /\ m # ZeroDivisionError
                           /\ RLeq(ROne, m)
                           /\ RLess(m, <<2, 1>>)
              \/ \A d \in Draws : ~approach(choice, d, MaxRate)]_vars

\* a person who turned the player down at a location half of whose persons
\* were converted: the multiplier was 3/2
C19_Witness ==
    /\ conversion_rates["Evangelist"] = <<9, 20>>
    /\ \E q \in People :
         /\ ~person(q).converted
         /\ person(q).failed_attempts = 1
         /\ num_converted(neighborhoods[q[1]][q[2]]) = 1

\* C20: the session of a player who approaches a person who is not converted
\* whenever there is one, and declines food, runs to completion.
C20_SessionCompletes == <>(pc = "done")

\* C21: satanic_score is positive only while the active religion is Satanic,
\* and no step taken while the active religion is Satanic raises score or
\* daily_score.
C21_SatanicScoreOnlyWhenSatanic ==
    /\ [](satanic_score > 0 => religion = "Satanic")
    /\ [][religion = "Satanic"
            => score' <= score /\ daily_score' <= daily_score]_vars

\* a Satanic player with a convert to Satanism, on the day of an earlier
\* convert to the religion chosen first
C21_Witness ==
    /\ religion = "Satanic"
    /\ satanic_score > 0
    /\ daily_score > 0

====
